---- MODULE Spec2Model ----
(***************************************************************************)
(* Model of the two scripts of the MACH-Aero tutorial:                     *)
(*   tutorial/opt/ffd/simple_ffd.py       the FFD lattice generator        *)
(*   tutorial/airfoilopt/singlepoint/airfoil_opt.py   the optimisation     *)
(*                                         driver and its two callbacks    *)
(*                                                                         *)
(* Numbers.  The generator computes with IEEE doubles; here every real is  *)
(* a fixed-point integer v standing for v / SCALE, and every arithmetic    *)
(* operation that rounds in floating point rounds to that grid (RDiv).     *)
(* The grid is far coarser than a double's, so rounding shows up in small  *)
(* cases.  numpy's gradual-underflow branch of linspace is not modelled.   *)
(***************************************************************************)
EXTENDS Integers, Sequences, FiniteSets, TLC

(***************************************************************************)
(* Bounds of the model.                                                    *)
(***************************************************************************)
MaxNX == 7
MaxNY == 3
MaxNZ == 4
MaxRuns == 2
MaxFaults == 1
SCALE == 16
MaxCl == 1
MaxEvals == 2

(***************************************************************************)
(* Program constants.                                                      *)
(***************************************************************************)
ExpNum == 4
ExpDen == 5
YLevels == 2
BlockCount == 1
NFields == 6
FracUnit == 100000000

(***************************************************************************)
(* Inputs of the generator: the bounding boxes of simple_ffd.py lines 4-11 *)
(* (in fixed-point units) and the resolution of lines 14-16.               *)
(***************************************************************************)
Geoms ==
    { [x_root_range |-> <<-2, 82>>, x_tip_range |-> <<118, 147>>,
       y_root_range |-> <<-8, 8>>,  y_tip_range |-> <<-4, 4>>,
       z_root |-> 0, z_tip |-> 228],
      [x_root_range |-> <<0, 1>>,   x_tip_range |-> <<3, 1>>,
       y_root_range |-> <<-1, 2>>,  y_tip_range |-> <<0, 1>>,
       z_root |-> 5, z_tip |-> 4],
      [x_root_range |-> <<7, 2>>,   x_tip_range |-> <<7, -9>>,
       y_root_range |-> <<3, -3>>,  y_tip_range |-> <<5, 11>>,
       z_root |-> 3, z_tip |-> 3] }

VARIABLES
    \* ---- simple_ffd.py ----
    nX, nY, nZ, geom,          \* inputs (lines 4-16)
    pc, err,                   \* position in the script; uncaught exception
    span_dist, z_sections, x_te, x_le, y_coords,
    X, Y, Z, row, k, j,        \* grids and the fill loop (lines 26-35)
    setIdx, rowIdx,            \* the write loops' positions (lines 42-43)
    disk,                      \* content of ffd.xyz: a sequence of lines
    runs, faults,              \* invocations so far; I/O faults so far
    prevFile, prevDone,        \* ffd.xyz as the previous invocation left it
    \* ---- airfoil_opt.py ----
    argv,                      \* the command line as given
    zeroLift, cl, preTrim,     \* args.zeroLift, args.cl, args.preTrim
    dpc,                       \* position in the driver
    trimmed, alphaDV,          \* solveCL has run; ap has the DV "alpha"
    calls,                     \* solver calls of the running callback, in order
    funcsFail, sensFail,       \* funcs["fail"], funcsSens["fail"]
    returned,                  \* what the last callback returned
    evals                      \* callbacks the optimiser has issued

ffdVars == <<nX, nY, nZ, geom, pc, err, span_dist, z_sections, x_te, x_le,
             y_coords, X, Y, Z, row, k, j, setIdx, rowIdx, disk, runs, faults,
             prevFile, prevDone>>

optVars == <<argv, zeroLift, cl, preTrim, dpc, trimmed, alphaDV, calls,
             funcsFail, sensFail, returned, evals>>

vars == <<ffdVars, optVars>>

(***************************************************************************)
(* Arithmetic.                                                             *)
(***************************************************************************)
\* a / b rounded to the nearest grid point (b > 0)
RDiv(a, b) == (2 * a + b) \div (2 * b)

\* numpy.linspace(start, stop, num), endpoint = True:
\*   y = arange(num) * step + start, step = (stop - start) / (num - 1),
\*   and y[-1] = stop when num > 1; for num = 1 the result is [start].
Linspace(start, stop, num) ==
    LET div == num - 1
        delta == stop - start
    IN  [i \in 1..num |->
            IF num > 1 /\ i = num THEN stop
            ELSE IF div > 0 THEN (i - 1) * RDiv(delta, div) + start
                 ELSE (i - 1) * delta + start]

\* t ** 0.8 for t in [0, 1]: the largest grid point r with r^5 <= t^4
Power(t) ==
    LET rhs == (t ^ ExpNum) * (SCALE ^ (ExpDen - ExpNum))
    IN  CHOOSE r \in 0..SCALE : r ^ ExpDen <= rhs /\ (r + 1) ^ ExpDen > rhs

\* span_dist * (tip - root) + root for one station
Interp(t, tip, root) == RDiv(t * (tip - root), SCALE) + root

SpanDist(n) == [i \in 1..n |-> Power(Linspace(0, SCALE, n)[i])]

InterpAll(sd, tip, root) == [i \in 1..Len(sd) |-> Interp(sd[i], tip, root)]

Zeros(rows, cols) == [r \in 1..rows |-> [c \in 1..cols |-> 0]]

Ones(n, v) == [c \in 1..n |-> v]

(***************************************************************************)
(* Formatting.                                                             *)
(***************************************************************************)
Abs(v) == IF v < 0 THEN -v ELSE v

\* "%3.8f" % v: sign, integer digits, eight fractional digits
Fmt(v) ==
    LET a == Abs(v)
        m == (a % SCALE) * FracUnit
        q == m \div SCALE
        frac == IF 2 * (m % SCALE) >= SCALE THEN q + 1 ELSE q
    IN  <<IF v < 0 THEN "-" ELSE "", a \div SCALE, frac>>

\* the format string of line 45 takes exactly six arguments
CanFormat(vals) == Len(vals) = NFields

FormatRow(vals) == [i \in 1..NFields |-> Fmt(vals[i])]

(***************************************************************************)
(* simple_ffd.py                                                           *)
(***************************************************************************)
Resolutions == (0..MaxNX) \X (0..MaxNY) \X (0..MaxNZ)

inputs == <<nX, nY, nZ, geom>>
stations == <<span_dist, z_sections, x_te, x_le, y_coords>>
history == <<runs, prevFile, prevDone>>

\* the state in which the interpreter starts the script
Start ==
    /\ pc = "compute" /\ err = "none"
    /\ span_dist = <<>> /\ z_sections = <<>> /\ x_te = <<>> /\ x_le = <<>>
    /\ y_coords = <<>>
    /\ X = <<>> /\ Y = <<>> /\ Z = <<>>
    /\ row = 0 /\ k = 0 /\ j = 0 /\ setIdx = 1 /\ rowIdx = 1

FFDInit ==
    /\ \E r \in Resolutions : nX = r[1] /\ nY = r[2] /\ nZ = r[3]
    /\ geom \in Geoms
    /\ Start
    /\ disk = <<>>
    /\ runs = 1 /\ faults = 0
    /\ prevFile = <<>> /\ prevDone = FALSE

RaiseSwallowed(e) == pc' = "done" /\ err' = "none"

\* an exception nothing catches ends the script with a traceback
Raise(e) == pc' = "failed" /\ err' = e

\* the operating system refuses an open, a write or a close
IOFault ==
    /\ faults < MaxFaults
    /\ faults' = faults + 1
    /\ Raise("IOError")

\* lines 19-29
Compute ==
    /\ pc = "compute"
    /\ span_dist' = SpanDist(nZ)
    /\ z_sections' = InterpAll(span_dist', geom.z_tip, geom.z_root)
    /\ x_te' = InterpAll(span_dist', geom.x_tip_range[1], geom.x_root_range[1])
    /\ x_le' = InterpAll(span_dist', geom.x_tip_range[2], geom.x_root_range[2])
    /\ y_coords' =
         <<InterpAll(span_dist', geom.y_tip_range[1], geom.y_root_range[1]),
           InterpAll(span_dist', geom.y_tip_range[2], geom.y_root_range[2])>>
    /\ X' = Zeros(nY * nZ, nX)
    /\ Y' = Zeros(nY * nZ, nX)
    /\ Z' = Zeros(nY * nZ, nX)
    /\ row' = 0 /\ k' = 0 /\ j' = 0
    /\ pc' = "fill"
    /\ UNCHANGED <<inputs, err, setIdx, rowIdx, disk, faults, history>>
    /\ UNCHANGED optVars

\* line 32, 33, 34: the right-hand sides (kk, jj count from 0 as in the code)
XRowReversed(kk) == Linspace(x_le[kk + 1], x_te[kk + 1], nX)

XRow(kk) == Linspace(x_te[kk + 1], x_le[kk + 1], nX)

YRowFlipped(jj, kk) == Ones(nX, y_coords[YLevels - jj][kk + 1])

YRow(jj, kk) == Ones(nX, y_coords[jj + 1][kk + 1])

ZRow(kk) == Ones(nX, z_sections[kk + 1])

\* lines 31-35: one pass of the loop body; y_coords has two rows only, so
\* line 33 raises IndexError at j = 2, after line 32 has assigned X[row]
FillRow ==
    /\ pc = "fill" /\ k < nZ /\ j < nY
    /\ X' = [X EXCEPT ![row + 1] = XRow(k)]
    /\ IF j < YLevels
       THEN /\ Y' = [Y EXCEPT ![row + 1] = YRow(j, k)]
            /\ Z' = [Z EXCEPT ![row + 1] = ZRow(k)]
            /\ row' = row + 1
            /\ j' = j + 1
            /\ UNCHANGED <<pc, err>>
       ELSE /\ Raise("IndexError")
            /\ UNCHANGED <<Y, Z, row, j>>
    /\ UNCHANGED <<inputs, stations, k, setIdx, rowIdx, disk, faults, history>>
    /\ UNCHANGED optVars

\* line 30: the inner loop is exhausted, the outer loop takes the next k
NextStation ==
    /\ pc = "fill" /\ k < nZ /\ j >= nY
    /\ k' = k + 1 /\ j' = 0
    /\ UNCHANGED <<inputs, stations, pc, err, X, Y, Z, row, setIdx, rowIdx,
                   disk, faults, history>>
    /\ UNCHANGED optVars

\* line 30: the outer loop is exhausted
FillDone ==
    /\ pc = "fill" /\ k >= nZ
    /\ pc' = "open"
    /\ UNCHANGED <<inputs, stations, err, X, Y, Z, row, k, j, setIdx, rowIdx,
                   disk, faults, history>>
    /\ UNCHANGED optVars

OpenAppend(d) == d

\* open(filename, 'w') leaves the file empty
OpenWrite(d) == <<>>

\* line 39
Open ==
    /\ pc = "open"
    /\ \/ /\ disk' = OpenWrite(disk)
          /\ pc' = "header1"
          /\ UNCHANGED <<err, faults>>
       \/ IOFault /\ UNCHANGED disk
    /\ UNCHANGED <<inputs, stations, X, Y, Z, row, k, j, setIdx, rowIdx, history>>
    /\ UNCHANGED optVars

\* line 40
WriteBlockCount ==
    /\ pc = "header1"
    /\ \/ /\ disk' = Append(disk, <<BlockCount>>)
          /\ pc' = "header2"
          /\ UNCHANGED <<err, faults>>
       \/ IOFault /\ UNCHANGED disk
    /\ UNCHANGED <<inputs, stations, X, Y, Z, row, k, j, setIdx, rowIdx, history>>
    /\ UNCHANGED optVars

\* line 41
WriteDims ==
    /\ pc = "header2"
    /\ \/ /\ disk' = Append(disk, <<nX, nY, nZ>>)
          /\ pc' = "rows"
          /\ UNCHANGED <<err, faults>>
       \/ IOFault /\ UNCHANGED disk
    /\ UNCHANGED <<inputs, stations, X, Y, Z, row, k, j, setIdx, rowIdx, history>>
    /\ UNCHANGED optVars

GridXZY(s) == CASE s = 1 -> X [] s = 2 -> Z [] s = 3 -> Y

\* line 42: the list [X, Y, Z]
Grid(s) == CASE s = 1 -> X [] s = 2 -> Y [] s = 3 -> Z

\* lines 43-45: one row of the active grid
WriteRow ==
    /\ pc = "rows" /\ setIdx <= 3 /\ rowIdx <= Len(Grid(setIdx))
    /\ LET vals == Grid(setIdx)[rowIdx]
       IN  IF CanFormat(vals)
           THEN \/ /\ disk' = Append(disk, FormatRow(vals))
                   /\ rowIdx' = rowIdx + 1
                   /\ UNCHANGED <<pc, err, faults>>
                \/ IOFault /\ UNCHANGED <<disk, rowIdx>>
           ELSE Raise("TypeError") /\ UNCHANGED <<disk, rowIdx, faults>>
    /\ UNCHANGED <<inputs, stations, X, Y, Z, row, k, j, setIdx, history>>
    /\ UNCHANGED optVars

\* line 43 exhausted: line 42 takes the next grid
NextSet ==
    /\ pc = "rows" /\ setIdx <= 3 /\ rowIdx > Len(Grid(setIdx))
    /\ setIdx' = setIdx + 1 /\ rowIdx' = 1
    /\ UNCHANGED <<inputs, stations, pc, err, X, Y, Z, row, k, j, disk, faults,
                   history>>
    /\ UNCHANGED optVars

\* line 42 exhausted
RowsDone ==
    /\ pc = "rows" /\ setIdx > 3
    /\ pc' = "close"
    /\ UNCHANGED <<inputs, stations, err, X, Y, Z, row, k, j, setIdx, rowIdx,
                   disk, faults, history>>
    /\ UNCHANGED optVars

\* line 46
Close ==
    /\ pc = "close"
    /\ \/ pc' = "done" /\ UNCHANGED <<err, faults>>
       \/ IOFault
    /\ UNCHANGED <<inputs, stations, X, Y, Z, row, k, j, setIdx, rowIdx, disk,
                   history>>
    /\ UNCHANGED optVars

\* the script is invoked again with the same inputs; ffd.xyz stays on disk
Rerun ==
    /\ pc \in {"done", "failed"}
    /\ runs < MaxRuns
    /\ runs' = runs + 1
    /\ prevFile' = disk
    /\ prevDone' = (pc = "done")
    /\ pc' = "compute" /\ err' = "none"
    /\ span_dist' = <<>> /\ z_sections' = <<>> /\ x_te' = <<>> /\ x_le' = <<>>
    /\ y_coords' = <<>>
    /\ X' = <<>> /\ Y' = <<>> /\ Z' = <<>>
    /\ row' = 0 /\ k' = 0 /\ j' = 0 /\ setIdx' = 1 /\ rowIdx' = 1
    /\ UNCHANGED <<inputs, disk, faults>>
    /\ UNCHANGED optVars

\* the generator is not running (the driver is modelled on its own)
FFDOff ==
    /\ nX = 0 /\ nY = 0 /\ nZ = 0 /\ geom = <<>>
    /\ pc = "off" /\ err = "none"
    /\ span_dist = <<>> /\ z_sections = <<>> /\ x_te = <<>> /\ x_le = <<>>
    /\ y_coords = <<>>
    /\ X = <<>> /\ Y = <<>> /\ Z = <<>>
    /\ row = 0 /\ k = 0 /\ j = 0 /\ setIdx = 1 /\ rowIdx = 1
    /\ disk = <<>>
    /\ runs = 1 /\ faults = 0
    /\ prevFile = <<>> /\ prevDone = FALSE

FFDNext ==
    \/ Compute \/ FillRow \/ NextStation \/ FillDone
    \/ Open \/ WriteBlockCount \/ WriteDims
    \/ WriteRow \/ NextSet \/ RowsDone \/ Close
    \/ Rerun

(***************************************************************************)
(* airfoil_opt.py                                                          *)
(***************************************************************************)
ClValues == (0 - MaxCl)..MaxCl

\* line 50: the parsed command line
OptInit ==
    /\ argv \in [zeroLift : BOOLEAN, cl : ClValues, preTrim : BOOLEAN]
    /\ zeroLift = argv.zeroLift /\ cl = argv.cl /\ preTrim = argv.preTrim
    /\ dpc = "normalise"
    /\ trimmed = FALSE /\ alphaDV = FALSE
    /\ calls = <<>>
    /\ funcsFail = "unset" /\ sensFail = "unset"
    /\ returned = "none"
    /\ evals = 0

\* the driver is not running (the generator is modelled on its own)
OptOff ==
    /\ argv = [zeroLift |-> FALSE, cl |-> 0, preTrim |-> FALSE]
    /\ zeroLift = FALSE /\ cl = 0 /\ preTrim = FALSE
    /\ dpc = "off"
    /\ trimmed = FALSE /\ alphaDV = FALSE
    /\ calls = <<>>
    /\ funcsFail = "unset" /\ sensFail = "unset"
    /\ returned = "none"
    /\ evals = 0

NormaliseNoElif ==
    /\ dpc = "normalise"
    /\ cl' = IF zeroLift /\ cl # 0 THEN 0 ELSE cl
    /\ dpc' = "pretrim"
    /\ UNCHANGED <<argv, zeroLift, preTrim, trimmed, alphaDV, calls, funcsFail,
                   sensFail, returned, evals>>
    /\ UNCHANGED ffdVars

\* lines 52-55
Normalise ==
    /\ dpc = "normalise"
    /\ IF zeroLift /\ cl # 0
       THEN cl' = 0 /\ UNCHANGED zeroLift
       ELSE IF ~zeroLift /\ cl = 0
            THEN zeroLift' = TRUE /\ UNCHANGED cl
            ELSE UNCHANGED <<zeroLift, cl>>
    /\ dpc' = "pretrim"
    /\ UNCHANGED <<argv, preTrim, trimmed, alphaDV, calls, funcsFail, sensFail,
                   returned, evals>>
    /\ UNCHANGED ffdVars

\* lines 142-143
PreTrim ==
    /\ dpc = "pretrim"
    /\ trimmed' = (preTrim /\ ~zeroLift)
    /\ dpc' = "adddv"
    /\ UNCHANGED <<argv, zeroLift, cl, preTrim, alphaDV, calls, funcsFail,
                   sensFail, returned, evals>>
    /\ UNCHANGED ffdVars

\* lines 145-147
AddAlpha ==
    /\ dpc = "adddv"
    /\ alphaDV' = ~zeroLift
    /\ dpc' = "optimise"
    /\ UNCHANGED <<argv, zeroLift, cl, preTrim, trimmed, calls, funcsFail,
                   sensFail, returned, evals>>
    /\ UNCHANGED ffdVars

args == <<argv, zeroLift, cl, preTrim, trimmed, alphaDV>>

\* line 325: the optimiser asks for the functions (MP.obj -> cruiseFuncs)
CallFuncs ==
    /\ dpc = "optimise" /\ evals < MaxEvals
    /\ evals' = evals + 1
    /\ calls' = <<>> /\ funcsFail' = "unset" /\ returned' = "none"
    /\ dpc' = "cf_setdv"
    /\ UNCHANGED <<args, sensFail>>
    /\ UNCHANGED ffdVars

\* line 325: the optimiser asks for the gradient (MP.sens -> cruiseFuncsSens)
CallSens ==
    /\ dpc = "optimise" /\ evals < MaxEvals /\ funcsFail # "unset"
    /\ evals' = evals + 1
    /\ calls' = <<>> /\ sensFail' = "unset" /\ returned' = "none"
    /\ dpc' = "cs_eval"
    /\ UNCHANGED <<args, funcsFail>>
    /\ UNCHANGED ffdVars

\* statements of a callback that call the libraries and move on
Step(from, to, names) ==
    /\ dpc = from
    /\ calls' = calls \o names
    /\ dpc' = to

\* lines 235-236
CF_SetDesignVars ==
    /\ Step("cf_setdv", "cf_solve", <<"DVGeo.setDesignVars", "ap.setDesignVars">>)
    /\ UNCHANGED <<args, funcsFail, sensFail, returned, evals>>
    /\ UNCHANGED ffdVars

\* line 238
CF_Solve ==
    /\ Step("cf_solve", "cf_eval", <<"CFDSolver">>)
    /\ UNCHANGED <<args, funcsFail, sensFail, returned, evals>>
    /\ UNCHANGED ffdVars

\* lines 240-242
CF_EvalFunctions ==
    /\ Step("cf_eval", "cf_check",
            <<"DVCon.evalFunctions", "CFDSolver.evalFunctions">>)
    /\ UNCHANGED <<args, funcsFail, sensFail, returned, evals>>
    /\ UNCHANGED ffdVars

\* line 243: the solver reports whether the solution failed
CF_CheckSolutionFailure ==
    /\ Step("cf_check", "cf_reset", <<"checkSolutionFailure">>)
    /\ funcsFail' \in {"True", "False"}
    /\ UNCHANGED <<args, sensFail, returned, evals>>
    /\ UNCHANGED ffdVars

\* lines 244-245
CF_Reset ==
    /\ dpc = "cf_reset"
    /\ IF funcsFail = "True"
       THEN calls' = Append(calls, "resetFlow")
       ELSE UNCHANGED calls
    /\ dpc' = "cf_return"
    /\ UNCHANGED <<args, funcsFail, sensFail, returned, evals>>
    /\ UNCHANGED ffdVars

\* line 248
CF_Return ==
    /\ dpc = "cf_return"
    /\ returned' = "funcs"
    /\ dpc' = "optimise"
    /\ UNCHANGED <<args, calls, funcsFail, sensFail, evals>>
    /\ UNCHANGED ffdVars

\* lines 252-254
CS_EvalFunctionsSens ==
    /\ Step("cs_eval", "cs_check",
            <<"DVCon.evalFunctionsSens", "CFDSolver.evalFunctionsSens">>)
    /\ UNCHANGED <<args, funcsFail, sensFail, returned, evals>>
    /\ UNCHANGED ffdVars

\* line 255: the solver reports whether the adjoint failed
CS_CheckAdjointFailure ==
    /\ Step("cs_check", "cs_reset", <<"checkAdjointFailure">>)
    /\ sensFail' \in {"True", "False"}
    /\ UNCHANGED <<args, funcsFail, returned, evals>>
    /\ UNCHANGED ffdVars

CS_ResetAlways ==
    /\ Step("cs_reset", "cs_return", <<"resetAdjoint">>)
    /\ UNCHANGED <<args, funcsFail, sensFail, returned, evals>>
    /\ UNCHANGED ffdVars

\* lines 256-257
CS_Reset ==
    /\ dpc = "cs_reset"
    /\ IF sensFail = "True"
       THEN calls' = Append(calls, "resetAdjoint")
       ELSE UNCHANGED calls
    /\ dpc' = "cs_return"
    /\ UNCHANGED <<args, funcsFail, sensFail, returned, evals>>
    /\ UNCHANGED ffdVars

\* line 260
CS_Return ==
    /\ dpc = "cs_return"
    /\ returned' = "funcsSens"
    /\ dpc' = "optimise"
    /\ UNCHANGED <<args, calls, funcsFail, sensFail, evals>>
    /\ UNCHANGED ffdVars

\* lines 325-327: the optimiser stops
Finish ==
    /\ dpc = "optimise"
    /\ dpc' = "finished"
    /\ UNCHANGED <<args, calls, funcsFail, sensFail, returned, evals>>
    /\ UNCHANGED ffdVars

OptNext ==
    \/ Normalise \/ PreTrim \/ AddAlpha
    \/ CallFuncs \/ CallSens
    \/ CF_SetDesignVars \/ CF_Solve \/ CF_EvalFunctions
    \/ CF_CheckSolutionFailure \/ CF_Reset \/ CF_Return
    \/ CS_EvalFunctionsSens \/ CS_CheckAdjointFailure \/ CS_Reset \/ CS_Return
    \/ Finish

(***************************************************************************)
(* Specifications: each script runs on its own.                            *)
(***************************************************************************)
InitFFD == FFDInit /\ OptOff

SpecFFD == InitFFD /\ [][FFDNext]_vars

InitOpt == OptInit /\ FFDOff

SpecOpt == InitOpt /\ [][OptNext]_vars

(***************************************************************************)
(* Properties of simple_ffd.py (checked under SpecFFD).                    *)
(***************************************************************************)
ValidResolution == nX >= 2 /\ nY >= 2 /\ nZ >= 2

Writing == {"header1", "header2", "rows", "close"}

AfterFill == {"open", "done"} \cup Writing

HasShape(G) == Len(G) = nY * nZ /\ \A r \in 1..Len(G) : Len(G[r]) = nX

\* C1: for every resolution with nX, nY, nZ >= 2 the fill loop runs to its
\* end, X, Y and Z have shape (nY*nZ, nX), and the loop leaves the row
\* counter at nY*nZ.
C1_LatticeCompletes ==
    ValidResolution =>
        /\ err # "IndexError"
        /\ pc \in {"fill"} \cup AfterFill => HasShape(X) /\ HasShape(Y) /\ HasShape(Z)
        /\ pc \in AfterFill => row = nY * nZ

\* C2: a resolution with nX < 2, nY < 2 or nZ < 2 is rejected with
\* InvalidConfiguration before the script opens or writes the output file.
C2_InvalidConfiguration ==
    ~ValidResolution =>
        /\ pc \notin Writing \cup {"done"}
        /\ pc = "failed" => err = "InvalidConfiguration"

\* the lines of one coordinate block: one line per row, one field per sample
Block(G) == [r \in 1..Len(G) |-> [c \in 1..Len(G[r]) |-> Fmt(G[r][c])]]

ExpectedFile ==
    <<<<BlockCount>>, <<nX, nY, nZ>>>> \o Block(X) \o Block(Y) \o Block(Z)

IsPrefix(a, b) == Len(a) <= Len(b) /\ \A i \in 1..Len(a) : a[i] = b[i]

\* C3: while the file is being written it is always a prefix of: the line
\* "1", the line "nX nY nZ", all rows of X, all rows of Y, all rows of Z,
\* each row on one line with its nX samples; when the last row is written
\* the file is exactly that.
C3_FileLayout ==
    /\ pc \in Writing \cup {"done"} => IsPrefix(disk, ExpectedFile)
    /\ pc \in {"close", "done"} => disk = ExpectedFile

C3_Witness ==
    /\ pc = "done" /\ nY * nZ >= 4
    /\ Len(disk) = 2 + 3 * nY * nZ
    /\ disk[3] # disk[3 + nY * nZ] /\ disk[3 + nY * nZ] # disk[3 + 2 * nY * nZ]

\* C4: for every resolution with nX, nY, nZ >= 2 a run that meets no I/O
\* fault leaves a file whose data lines hold exactly 6 fields each and hold
\* every sample of every row of X, Y and Z.
C4_ChunksOfSix ==
    (ValidResolution /\ pc \in {"done", "failed"} /\ err \notin {"IOError", "IndexError"}) =>
        /\ Len(disk) >= 2
        /\ \A i \in 3..Len(disk) : Len(disk[i]) = NFields
        /\ (Len(disk) - 2) * NFields >= 3 * nY * nZ * nX

\* what a reader of the file accepts: the two header lines and as many
\* data lines as the header announces, each with nX fields
IsCompleteLattice(d) ==
    /\ Len(d) >= 2
    /\ d[1] = <<BlockCount>>
    /\ Len(d[2]) = 3
    /\ Len(d) = 2 + 3 * d[2][2] * d[2][3]
    /\ \A i \in 3..Len(d) : Len(d[i]) = d[2][1]

\* C5: when the script has ended and ffd.xyz is not a complete lattice
\* file, the script ended with an exception.
C5_NoSilentPartialFile ==
    (pc \in {"done", "failed"} /\ ~IsCompleteLattice(disk)) =>
        (pc = "failed" /\ err # "none")

C5_Witness ==
    /\ pc = "failed" /\ err = "IOError"
    /\ Len(disk) > 2 /\ ~IsCompleteLattice(disk)

\* C6: every filled row r = k*nY + j of Z is nX copies of z_sections[k]
\* and of Y is nX copies of y_coords[j][k]; the loop is at row k*nY + j;
\* when the loop has ended all nY*nZ rows are filled; z_sections is
\* non-decreasing in k when z_tip > z_root and non-increasing when
\* z_tip < z_root.
C6_RowOrdering ==
    pc \in {"fill", "failed"} \cup AfterFill =>
        /\ \A r \in 1..row :
             LET kk == (r - 1) \div nY
                 jj == (r - 1) % nY
             IN  /\ Len(Z[r]) = nX /\ Len(Y[r]) = nX
                 /\ \A c \in 1..nX : /\ Z[r][c] = z_sections[kk + 1]
                                     /\ Y[r][c] = y_coords[jj + 1][kk + 1]
        /\ pc = "fill" => row = k * nY + j
        /\ pc \in AfterFill => row = nY * nZ
        /\ \A a, b \in 1..Len(z_sections) :
             a < b => /\ geom.z_tip > geom.z_root => z_sections[a] <= z_sections[b]
                      /\ geom.z_tip < geom.z_root => z_sections[a] >= z_sections[b]

C6_Witness ==
    /\ pc = "open" /\ nX >= 2 /\ nY = 2 /\ nZ >= 3
    /\ row = nY * nZ
    /\ geom.z_tip # geom.z_root
    /\ Z[1][1] # Z[row][nX]
    /\ Y[row - 1][1] # Y[row][1]

Between(v, a, b) == (a <= v /\ v <= b) \/ (b <= v /\ v <= a)

\* C7: for nX >= 2 every filled row r = k*nY + j of X has nX samples, the
\* first equal to x_te[k], the last equal to x_le[k], the others on the
\* straight line between them up to the rounding of the step; x_te[k] lies
\* between x_root_range[0] and x_tip_range[0], x_le[k] between
\* x_root_range[1] and x_tip_range[1].
C7_XRowsLinear ==
    (nX >= 2 /\ pc \in {"fill", "failed"} \cup AfterFill) =>
        \A r \in 1..row :
            LET kk == (r - 1) \div nY
                a == x_te[kk + 1]
                b == x_le[kk + 1]
            IN  /\ Len(X[r]) = nX
                /\ X[r][1] = a
                /\ X[r][nX] = b
                /\ \A i \in 1..nX :
                     2 * Abs((nX - 1) * (X[r][i] - a) - (i - 1) * (b - a))
                        <= (i - 1) * (nX - 1)
                /\ Between(a, geom.x_root_range[1], geom.x_tip_range[1])
                /\ Between(b, geom.x_root_range[2], geom.x_tip_range[2])

C7_Witness ==
    /\ pc = "open" /\ nX >= 3 /\ nY >= 2 /\ nZ >= 2 /\ row = nY * nZ
    /\ X[row][1] = x_te[nZ] /\ X[row][nX] = x_le[nZ]
    /\ x_te[nZ] # x_le[nZ]
    /\ (nX - 1) * (X[row][2] - x_te[nZ]) # x_le[nZ] - x_te[nZ]

\* C8: a completed run that follows a completed run leaves ffd.xyz exactly
\* as the earlier run left it.
C8_Idempotent ==
    (runs >= 2 /\ prevDone /\ pc = "done") => disk = prevFile

C8_Witness ==
    /\ runs >= 2 /\ prevDone /\ pc = "done"
    /\ Len(disk) > 2 /\ disk = prevFile

(***************************************************************************)
(* Properties of airfoil_opt.py (checked under SpecOpt).                   *)
(***************************************************************************)
Before(log, first, then) ==
    \A i \in 1..Len(log) : log[i] = then => \E h \in 1..(i - 1) : log[h] = first

\* C9: cruiseFuncs returns funcs after the two setDesignVars, the solve,
\* the two evalFunctions, checkSolutionFailure and, exactly when
\* funcs["fail"] is true, resetFlow; cruiseFuncsSens returns funcsSens after
\* evalFunctionsSens, checkAdjointFailure and, exactly when
\* funcsSens["fail"] is true, resetAdjoint; no reset comes before its check.
C9_ResetOnlyOnFailure ==
    /\ returned = "funcs" =>
         calls = <<"DVGeo.setDesignVars", "ap.setDesignVars", "CFDSolver",
                   "DVCon.evalFunctions", "CFDSolver.evalFunctions",
                   "checkSolutionFailure">>
                 \o (IF funcsFail = "True" THEN <<"resetFlow">> ELSE <<>>)
    /\ returned = "funcsSens" =>
         calls = <<"DVCon.evalFunctionsSens", "CFDSolver.evalFunctionsSens",
                   "checkAdjointFailure">>
                 \o (IF sensFail = "True" THEN <<"resetAdjoint">> ELSE <<>>)
    /\ Before(calls, "checkSolutionFailure", "resetFlow")
    /\ Before(calls, "checkAdjointFailure", "resetAdjoint")
    /\ dpc \in {"cf_return", "cs_return"} => returned = "none"

C9_Witness ==
    /\ returned = "funcsSens" /\ sensFail = "True"
    /\ Len(calls) = 4 /\ calls[4] = "resetAdjoint"
    /\ funcsFail = "False"

\* C10: once the arguments are normalised zeroLift is true exactly when cl
\* is 0; solveCL has run only if cl is not 0, and "alpha" is a design
\* variable only if cl is not 0.
C10_ZeroLiftIffClZero ==
    dpc \notin {"off", "normalise"} =>
        /\ zeroLift <=> (cl = 0)
        /\ trimmed => cl # 0
        /\ alphaDV => cl # 0

C10_Witness ==
    /\ dpc = "optimise"
    /\ argv.zeroLift /\ argv.cl # 0 /\ argv.preTrim
    /\ zeroLift /\ cl = 0 /\ ~trimmed /\ ~alphaDV

====
